---- MODULE Spec2Model ----
(***************************************************************************)
(* A model of the news-bot ingestion-to-briefing pipeline                  *)
(* (backend/app/services/..., backend/app/workers/...).                    *)
(*                                                                         *)
(* The module holds four sub-models that share one variable tuple; each    *)
(* has its own specification, and the variables a specification does not   *)
(* use keep their initial value in it:                                     *)
(*   Spec / SpecIngestSeq  BaseIngester.ingest against the raw_items table *)
(*   SpecPipeline / SpecPeriodic  extract, embed, cluster, score stages    *)
(*   SpecScore             the composite score of ScoringService           *)
(*   SpecBriefing          BriefingService.generate_for_user               *)
(*                                                                         *)
(* The database is PostgreSQL at READ COMMITTED: a session's writes are    *)
(* kept in the session (its uncommitted rows) and reach the tables at      *)
(* commit; a statement reads the committed tables plus the session's own   *)
(* writes.                                                                 *)
(***************************************************************************)
EXTENDS Integers, Sequences, FiniteSets, TLC

VARIABLES
    \* ---- ingest sub-model ----
    listing,        \* what fetch() returns for the source: a sequence of NormalizedItem
    rawItems,       \* committed rows of raw_items: [id, source_id, external_id]
    pc,             \* per ingest worker: position in BaseIngester.ingest
    idx,            \* per ingest worker: index of the current item in the for-loop
    pending,        \* per ingest worker: rows flushed in the session, not yet committed
    inserted_count, \* per ingest worker: the local inserted_count
    runNo,          \* per ingest worker: number of runs begun (ids of rows, bound)
    rowsAtStart,    \* per ingest worker: raw_items as committed when the run began (history)
    \* ---- pipeline sub-model (extract, embed, cluster, score) ----
    status,         \* RawItem.status of each item
    contentRows,    \* number of extracted_content rows of each item
    embedding,      \* the item_embeddings row of each item: its vector, or NoVec
    clusters,       \* committed rows of clusters: [id, canonical_item_id, status]
    members,        \* committed rows of cluster_members
    scoreCount,     \* number of item_scores rows of each item
    nextCluster,    \* next fresh cluster id
    extractTask,    \* the running extract_all_pending: [pc, batch]
    embedTask,      \* the running embed_all_pending: [pc, batch]
    clusterTask,    \* the running cluster_all_pending: [pc, todo, clusters, members, clustered]
    scoreTask,      \* the running score_all: [pc, batch]
    batchClustered, \* items whose loop body cluster_all_pending has run and committed (history)
    onDemand,       \* number of on-demand (non-periodic) task calls made so far
    scoreIn,        \* what _score_item reads: payload, source tier, cluster size, age, LLM answer
    scoreRow,       \* the ItemScore row _score_item has written, or NoRow
    itemScores,     \* item_scores of each item, signal_score in hundredths, oldest first
    itemRecent,     \* per item: fetched_at is within the last 24 hours
    briefingItems,  \* briefing_items rows, each with the item's latest score at creation
    briefingNo,     \* briefings generated so far
    lastBriefing,   \* the last generate_for_user: its signals, content and return value
    \* ---- POST /briefings/generate and generate_all_pending ----
    briefings,      \* rows of briefings with a user scope: [id, user, day, forced]
    apiCall,        \* per HTTP call: [pc, user, force, response]
    batchGen,       \* the running generate_all_pending: [pc, todo]
    today,          \* the current UTC date, as a day number
    \* ---- failures ----
    extractCrashes,     \* times a running extract_all_pending has been killed
    extractItemErrors,  \* items on which a call of extract_item has raised (history)
    ingestOutcome,      \* per ingest worker: how the last run with a failing fetch ended
    \* ---- fetch() of the ingesters ----
    fetchIn,        \* ingester type, MAX_ITEMS_PER_SOURCE, entries the upstream offers
    fetchOut,       \* what one ingest run fetched and inserted, or NoFetch
    \* ---- attributes of the items of the pipeline sub-model ----
    url,            \* per item: what kind of URL the RawItem has
    inWindow,       \* per item: fetched_at is within the last 7 days
    \* ---- the embedding provider ----
    embedCalls,     \* [counting, calls]: provider calls issued in the current hour
    \* ---- the daily triggers of the beat schedule ----
    beat,           \* [phase, unregistered, selected]: where the day is, the task names
                    \* the worker discarded, the briefings the 07:00 selection found
    \* ---- the duplicate checks on their own ----
    semIn,          \* per candidate row of the similarity query: similarity, published_at
    semOut,         \* what check_semantic_duplicate made of it, or NoPick
    exactIn,        \* how many other items have the item's url, and its title
    exactOut,       \* what check_exact_duplicate made of it, or NoExact
    \* ---- score_all in several worker processes ----
    scoreRuns       \* per worker process: [pc, batch, runs] of its score_all run

ingestVars == <<listing, rawItems, pc, idx, pending, inserted_count, runNo, rowsAtStart>>

pipeVars == <<status, contentRows, embedding, clusters, members, scoreCount, nextCluster,
              extractTask, embedTask, clusterTask, scoreTask, batchClustered, onDemand>>

scoreVars == <<scoreIn, scoreRow>>

briefVars == <<itemScores, itemRecent, briefingItems, briefingNo, lastBriefing>>

apiVars == <<briefings, apiCall, batchGen, today>>

faultVars == <<extractCrashes, extractItemErrors, ingestOutcome>>

fetchVars == <<fetchIn, fetchOut>>

extraVars == <<url, inWindow>>

meterVars == <<embedCalls>>

beatVars == <<beat>>

dupVars == <<semIn, semOut, exactIn, exactOut>>

overlapVars == <<scoreRuns>>

restVars == <<apiVars, faultVars, fetchVars, extraVars, meterVars, beatVars, dupVars, overlapVars>>

vars == <<ingestVars, pipeVars, scoreVars, briefVars, restVars>>

\* What the ingest actions, and the pipeline actions, leave alone.
outsideIngest == <<pipeVars, scoreVars, briefVars, restVars>>
outsidePipeline == <<ingestVars, scoreVars, briefVars, restVars>>
outsideEmbed == <<ingestVars, scoreVars, briefVars, apiVars, faultVars, fetchVars, extraVars,
                  beatVars, dupVars, overlapVars>>

(***************************************************************************)
(* Bounds                                                                  *)
(***************************************************************************)
NExt == 2         \* number of distinct external ids a listing can name
MaxListing == 2   \* longest listing fetch() returns
MaxRuns == 2      \* ingest runs each worker begins
NItems == 2       \* raw items in the pipeline sub-model
MaxClusters == 2  \* cluster rows ever created
MaxScores == 1    \* item_scores rows per item
MaxMerge == 2     \* longest cluster_ids list given to merge_clusters
MaxOnDemand == 2  \* on-demand task calls in one behaviour
MaxTier == 6      \* largest credibility_tier of a source
MaxClusterSize == 4  \* most members of the cluster of a scored item
MaxAgeHours == 100   \* oldest item scored, in hours
MaxScoreRows == 2    \* item_scores rows per item in the briefing sub-model
MaxBriefings == 2    \* briefings generated in one behaviour
max_items_per_briefing == 2  \* settings.BRIEFING_NUM_ITEMS, kept small
MaxDays == 2      \* UTC dates a behaviour spans
MaxCrashes == 2   \* kills of the extract task in one behaviour
MaxSetting == 2   \* largest MAX_ITEMS_PER_SOURCE drawn
MaxOffered == 3   \* most entries the remote listing holds
MaxUsed == 2      \* longest items_used list of an LLM answer
max_embeddings_per_hour == 1  \* settings.MAX_EMBEDDINGS_PER_HOUR, kept small

(***************************************************************************)
(* Ingest: BaseIngester.ingest                                             *)
(***************************************************************************)
Workers == {1, 2}
Sources == {"s1"}
ExtIds == 1..NExt

\* A NormalizedItem as far as persistence goes: its external_id, and whether
\* the INSERT of its row raises in flush() (a payload the database rejects).
NormalizedItem == [external_id : ExtIds, rejects : BOOLEAN]

Listings == UNION {[1..n -> NormalizedItem] : n \in 0..MaxListing}

\* The unique constraint broken: no conflict is ever reported.
UniqueConflictOff(rows, source_id, external_id) == FALSE

\* uq_raw_items_source_external: a row with this (source_id, external_id) exists.
UniqueConflict(rows, source_id, external_id) ==
    \E r \in rows : r.source_id = source_id /\ r.external_id = external_id

TheSource == CHOOSE s \in Sources : TRUE

CurrentItem(w) == listing[idx[w]]

\* select(RawItem.id).where(source_id, external_id).limit(1): the session sees
\* the committed rows and its own flushed rows.
ExistingRow(w) ==
    \E r \in rawItems \cup pending[w] :
        r.source_id = TheSource /\ r.external_id = CurrentItem(w).external_id

\* Rows other sessions have flushed and not committed: an INSERT of the same
\* key waits on them.
PendingOfOthers(w) == UNION {pending[o] : o \in Workers \ {w}}

\* Two sessions wait on each other's uncommitted rows: the database aborts
\* the statement of the one that closes the cycle.
Deadlocked(w) ==
    \E o \in Workers \ {w} :
        /\ pc[o] = "insert"
        /\ UniqueConflict(pending[o], TheSource, CurrentItem(w).external_id)
        /\ UniqueConflict(pending[w], TheSource, CurrentItem(o).external_id)

AfterItem(w) == IF idx[w] < Len(listing) THEN "select" ELSE "commit"

\* The source is found and enabled and fetch() has returned the listing.
IngestBegin(w) ==
    /\ pc[w] \in {"idle", "done"}
    /\ runNo[w] < MaxRuns
    /\ runNo' = [runNo EXCEPT ![w] = @ + 1]
    /\ idx' = [idx EXCEPT ![w] = 1]
    /\ pending' = [pending EXCEPT ![w] = {}]
    /\ inserted_count' = [inserted_count EXCEPT ![w] = 0]
    /\ rowsAtStart' = [rowsAtStart EXCEPT ![w] = rawItems]
    /\ pc' = [pc EXCEPT ![w] = IF Len(listing) = 0 THEN "commit" ELSE "select"]
    /\ UNCHANGED <<listing, rawItems>>
    /\ UNCHANGED outsideIngest

\* The duplicate check of one loop iteration.
IngestSelect(w) ==
    /\ pc[w] = "select"
    /\ IF ExistingRow(w)
         THEN /\ pc' = [pc EXCEPT ![w] = AfterItem(w)]
              /\ idx' = [idx EXCEPT ![w] = @ + 1]
         ELSE /\ pc' = [pc EXCEPT ![w] = "insert"]
              /\ UNCHANGED idx
    /\ UNCHANGED <<listing, rawItems, pending, inserted_count, runNo, rowsAtStart>>
    /\ UNCHANGED outsideIngest

\* session.add(raw_item); flush(); inserted_count += 1.
IngestInsert(w) ==
    /\ pc[w] = "insert"
    /\ ~CurrentItem(w).rejects
    /\ ~UniqueConflict(rawItems, TheSource, CurrentItem(w).external_id)
    /\ ~UniqueConflict(PendingOfOthers(w), TheSource, CurrentItem(w).external_id)
    /\ pending' = [pending EXCEPT ![w] = @ \cup
          {[id |-> <<w, runNo[w], idx[w]>>, source_id |-> TheSource,
            external_id |-> CurrentItem(w).external_id]}]
    /\ inserted_count' = [inserted_count EXCEPT ![w] = @ + 1]
    /\ pc' = [pc EXCEPT ![w] = AfterItem(w)]
    /\ idx' = [idx EXCEPT ![w] = @ + 1]
    /\ UNCHANGED <<listing, rawItems, runNo, rowsAtStart>>
    /\ UNCHANGED outsideIngest

\* flush() raises; except: session.rollback() drops every row the session had
\* flushed, inserted_count keeps its value, and the loop goes on.
IngestInsertRaises(w) ==
    /\ pc[w] = "insert"
    /\ \/ CurrentItem(w).rejects
       \/ UniqueConflict(rawItems, TheSource, CurrentItem(w).external_id)
       \/ Deadlocked(w)
    /\ pending' = [pending EXCEPT ![w] = {}]
    /\ pc' = [pc EXCEPT ![w] = AfterItem(w)]
    /\ idx' = [idx EXCEPT ![w] = @ + 1]
    /\ UNCHANGED <<listing, rawItems, inserted_count, runNo, rowsAtStart>>
    /\ UNCHANGED outsideIngest

\* session.commit() and the returned dict (items_inserted = inserted_count).
IngestCommit(w) ==
    /\ pc[w] = "commit"
    /\ rawItems' = rawItems \cup pending[w]
    /\ pending' = [pending EXCEPT ![w] = {}]
    /\ pc' = [pc EXCEPT ![w] = "done"]
    /\ UNCHANGED <<listing, idx, inserted_count, runNo, rowsAtStart>>
    /\ UNCHANGED outsideIngest

\* The worker dies inside the run: the session's transaction is rolled back
\* and, the task being acknowledged late, the run is delivered again.
IngestCrash(w) ==
    /\ pc[w] \in {"select", "insert", "commit"}
    /\ pending' = [pending EXCEPT ![w] = {}]
    /\ pc' = [pc EXCEPT ![w] = "idle"]
    /\ UNCHANGED <<listing, rawItems, idx, inserted_count, runNo, rowsAtStart>>
    /\ UNCHANGED outsideIngest

\* ingest: fetch() raised; except: return {"error": str(e)} (nothing raised).
FetchErrorResult == [raised |-> FALSE, error |-> TRUE]

\* ingest_all, one enabled source: the ingester's result is counted unless
\* ingest itself raised; ingest_all never raises.
IngestAll(result) ==
    [raised |-> FALSE,
     sources_processed |-> IF result.raised THEN 0 ELSE 1,
     errors |-> IF result.raised THEN 1 ELSE 0]

\* ingest_all_sources: self.retry only in the except branch.
IngestAllSources(results) == IF results.raised THEN "retry" ELSE "succeeded"

\* A run in which fetch() raises: no item is handled, and the task ends with
\* what ingest_all_sources makes of ingest_all's result.
IngestFetchRaises(w) ==
    /\ pc[w] \in {"idle", "done"}
    /\ runNo[w] < MaxRuns
    /\ runNo' = [runNo EXCEPT ![w] = @ + 1]
    /\ rowsAtStart' = [rowsAtStart EXCEPT ![w] = rawItems]
    /\ pc' = [pc EXCEPT ![w] = "done"]
    /\ ingestOutcome' = [ingestOutcome EXCEPT ![w] =
          [fetch_failed |-> TRUE, task |-> IngestAllSources(IngestAll(FetchErrorResult))]]
    /\ UNCHANGED <<listing, rawItems, idx, pending, inserted_count>>
    /\ UNCHANGED <<pipeVars, scoreVars, briefVars, apiVars, fetchVars, extraVars, meterVars, beatVars, dupVars, overlapVars,
                   extractCrashes, extractItemErrors>>

(***************************************************************************)
(* Pipeline: extract -> embed -> cluster -> score                          *)
(*                                                                         *)
(* extract_all_pending, embed_all_pending and score_all are modelled in    *)
(* two steps, the SELECT of the batch and the loop with its commit; the    *)
(* loop of cluster_all_pending, whose decisions read what other sessions   *)
(* commit meanwhile, is modelled one item at a time, its writes kept in    *)
(* the session until the commit.  The single-item operations are one step. *)
(***************************************************************************)
Items == 1..NItems

\* RawItem.url as far as the extract stage goes: an article link, a link on
\* one of the domains twitter.com, x.com, youtube.com, reddit.com, the
\* news.ycombinator.com/item?id= link the HN ingester gives a self-post, or
\* no URL.
UrlKinds == {"article", "skip_domain", "hn_self_post", "none"}

\* if not item.url: the items extract() is called for are the others.
WithUrl(batch) == {i \in batch : url[i] # "none"}

\* The kinds the extractor is meant to leave alone.
Unextractable == {"skip_domain", "hn_self_post"}
ClusterIds == 1..MaxClusters

StatusOrder == <<"new", "extracted", "embedded", "clustered", "scored">>

\* Position of a status in new < extracted < embedded < clustered < scored.
Rank(s) == CHOOSE k \in 1..Len(StatusOrder) : StatusOrder[k] = s

\* Embedding vectors the provider can return, and "no row".
Vectors == {"v1", "v2", "v3"}
NoVec == "none"

\* 1 - (a <=> b), in hundredths: v1-v2 0.95, v2-v3 exactly 0.92, v1-v3 0.91.
Cosine(a, b) ==
    IF a = b THEN 100
    ELSE IF {a, b} = {"v1", "v2"} THEN 95
    ELSE IF {a, b} = {"v2", "v3"} THEN 92
    ELSE 91

\* DeduplicationService.semantic_threshold = 0.92, in hundredths.
semantic_threshold == 92

MembersOf(rows, c) == {m \in rows : m.cluster_id = c}
MembershipsOf(rows, i) == {m \in rows : m.raw_item_id = i}

\* Primary key (cluster_id, raw_item_id) of cluster_members.
MemberKeyTaken(rows, c, i) == \E m \in rows : m.cluster_id = c /\ m.raw_item_id = i

Member(c, i, canonical, sim) ==
    [cluster_id |-> c, raw_item_id |-> i, is_canonical |-> canonical, similarity |-> sim]

\* The similarity query of check_semantic_duplicate: the other items with an
\* embedding row, fetched since the cutoff, whose cosine similarity reaches
\* the threshold.
SimilarItems(i) ==
    {j \in Items \ {i} :
        /\ embedding[j] # NoVec
        /\ inWindow[j]
        /\ Cosine(embedding[i], embedding[j]) >= semantic_threshold}

\* similar_items[0] under ORDER BY similarity DESC: any item of highest similarity.
BestMatches(i) ==
    {j \in SimilarItems(i) :
        \A k \in SimilarItems(i) :
            Cosine(embedding[i], embedding[j]) >= Cosine(embedding[i], embedding[k])}

\* _add_to_cluster, on the rows the session sees.  outcome: "ok" with the rows
\* to add; "raise" when scalar_one_or_none() finds the canonical item flagged
\* canonical in several clusters; "integrity" when the duplicate's member row
\* exists already (primary key).
AddToCluster(rows, duplicate_item, canonical_item, similarity, newId) ==
    LET existing == {m \in rows : m.raw_item_id = canonical_item /\ m.is_canonical}
    IN  IF Cardinality(existing) > 1
          THEN [outcome |-> "raise", clusters |-> {}, members |-> {}]
        ELSE IF existing # {}
          THEN LET c == (CHOOSE m \in existing : TRUE).cluster_id
               IN  IF MemberKeyTaken(rows, c, duplicate_item)
                     THEN [outcome |-> "integrity", clusters |-> {}, members |-> {}]
                     ELSE [outcome |-> "ok", clusters |-> {},
                           members |-> {Member(c, duplicate_item, FALSE, similarity)}]
        ELSE [outcome |-> "ok",
              clusters |-> {[id |-> newId, canonical_item_id |-> canonical_item,
                             status |-> "open"]},
              members |-> {Member(newId, canonical_item, TRUE, 100),
                           Member(newId, duplicate_item, FALSE, similarity)}]

\* The single-item cluster both cluster_all_pending and assign_cluster open.
OwnCluster(i, newId) ==
    [clusters |-> {[id |-> newId, canonical_item_id |-> i, status |-> "open"]},
     members |-> {Member(newId, i, TRUE, 100)}]

\* An on-demand task (a single-item or administrative task, which nothing in
\* the beat schedule fires) is called; the calls of a behaviour are bounded.
OnDemandCall == onDemand < MaxOnDemand /\ onDemand' = onDemand + 1

IdleBatch == [pc |-> "idle", batch |-> {}]
IdleCluster == [pc |-> "idle", todo |-> {}, clusters |-> {}, members |-> {}, clustered |-> {}]

\* ---------------------------------------------------------------- extract
\* extract_all_pending: select(RawItem).where(status == "new").
ExtractAllStart ==
    /\ extractTask.pc = "idle"
    /\ extractTask' = [pc |-> "run", batch |-> {i \in Items : status[i] = "new"}]
    /\ UNCHANGED <<status, contentRows, embedding, clusters, members, scoreCount,
                   nextCluster, embedTask, clusterTask, scoreTask, batchClustered>>
    /\ UNCHANGED <<onDemand, outsidePipeline>>

\* A variant of the end of extract_all_pending in which an item whose
\* extraction returned nothing keeps status new.
ExtractAllFinishKeepsFailedNew(outcomes) ==
    /\ extractTask.pc = "run"
    /\ \E ok \in SUBSET WithUrl(extractTask.batch) :
          /\ (ok # {}) => (TRUE \in outcomes)
          /\ (ok # WithUrl(extractTask.batch)) => (FALSE \in outcomes)
          /\ IF \E i \in ok : contentRows[i] > 0
               THEN UNCHANGED <<status, contentRows>>
               ELSE /\ contentRows' = [i \in Items |->
                                          IF i \in ok THEN contentRows[i] + 1 ELSE contentRows[i]]
                    /\ status' = [i \in Items |->
                                    IF i \in ok THEN "extracted" ELSE status[i]]
    /\ extractTask' = IdleBatch
    /\ UNCHANGED <<embedding, clusters, members, scoreCount, nextCluster,
                   embedTask, clusterTask, scoreTask, batchClustered>>
    /\ UNCHANGED <<onDemand, outsidePipeline>>

\* The loop and the commit, with `outcomes` the results extract() may have
\* (TRUE: a text was extracted).  An ExtractedContent row for an item that has
\* one already violates the primary key: the flush raises and the task ends
\* with nothing committed.
ExtractAllFinishWith(outcomes) ==
    /\ extractTask.pc = "run"
    /\ \E ok \in SUBSET WithUrl(extractTask.batch) :
          /\ (ok # {}) => (TRUE \in outcomes)
          /\ (ok # WithUrl(extractTask.batch)) => (FALSE \in outcomes)
          /\ IF \E i \in ok : contentRows[i] > 0
               THEN UNCHANGED <<status, contentRows>>
               ELSE /\ contentRows' = [i \in Items |->
                                          IF i \in ok THEN contentRows[i] + 1 ELSE contentRows[i]]
                    /\ status' = [i \in Items |->
                                    IF i \in extractTask.batch THEN "extracted" ELSE status[i]]
    /\ extractTask' = IdleBatch
    /\ UNCHANGED <<embedding, clusters, members, scoreCount, nextCluster,
                   embedTask, clusterTask, scoreTask, batchClustered>>
    /\ UNCHANGED <<onDemand, outsidePipeline>>

ExtractAllFinish == ExtractAllFinishWith(BOOLEAN)

\* extract_item of an existing item whose extraction succeeds: the row is
\* inserted and the status set, whatever the status was.  (A failed extraction
\* returns without a write; a second row raises on the primary key.)
ExtractItem(i) ==
    /\ url[i] # "none"
    /\ contentRows[i] = 0
    /\ contentRows' = [contentRows EXCEPT ![i] = 1]
    /\ status' = [status EXCEPT ![i] = "extracted"]
    /\ UNCHANGED <<embedding, clusters, members, scoreCount, nextCluster,
                   extractTask, embedTask, clusterTask, scoreTask, batchClustered>>
    /\ OnDemandCall
    /\ UNCHANGED outsidePipeline

\* ------------------------------------------------------------------ embed
\* The provider calls of the current hour are not counted.
NotCounting == [counting |-> FALSE, calls |-> 0]

\* _generate_embedding is called k times: client.embeddings.create, with no
\* look at MAX_EMBEDDINGS_PER_HOUR.  (The count stops one above the cap.)
ProviderCalls(k) ==
    embedCalls' = IF embedCalls.counting
                    THEN [embedCalls EXCEPT
                            !.calls = IF @ + k > max_embeddings_per_hour
                                        THEN max_embeddings_per_hour + 1 ELSE @ + k]
                    ELSE embedCalls

\* embed_all_pending: status == "extracted" and no ItemEmbedding row.
EmbedAllStart ==
    /\ embedTask.pc = "idle"
    /\ embedTask' = [pc |-> "run",
                     batch |-> {i \in Items : status[i] = "extracted" /\ embedding[i] = NoVec}]
    /\ UNCHANGED <<status, contentRows, embedding, clusters, members, scoreCount,
                   nextCluster, extractTask, clusterTask, scoreTask, batchClustered>>
    /\ UNCHANGED <<onDemand, outsidePipeline>>

\* The loop and the commit, with `results` what _generate_embedding may return
\* (NoVec: None, the item is counted failed and keeps its status).
EmbedAllFinishWith(results) ==
    /\ embedTask.pc = "run"
    /\ \E res \in [embedTask.batch -> results] :
          IF \E i \in embedTask.batch : res[i] # NoVec /\ embedding[i] # NoVec
            THEN UNCHANGED <<status, embedding>>
            ELSE /\ embedding' = [i \in Items |->
                                    IF i \in embedTask.batch /\ res[i] # NoVec
                                      THEN res[i] ELSE embedding[i]]
                 /\ status' = [i \in Items |->
                                 IF i \in embedTask.batch /\ res[i] # NoVec
                                   THEN "embedded" ELSE status[i]]
    /\ embedTask' = IdleBatch
    /\ ProviderCalls(Cardinality(embedTask.batch))
    /\ UNCHANGED <<contentRows, clusters, members, scoreCount, nextCluster,
                   extractTask, clusterTask, scoreTask, batchClustered>>
    /\ UNCHANGED <<onDemand, outsideEmbed>>

EmbedAllFinish == EmbedAllFinishWith(Vectors \cup {NoVec})

\* embed_item of an existing item with a generated embedding v.
EmbedItem(i, v) ==
    /\ embedding[i] = NoVec
    /\ embedding' = [embedding EXCEPT ![i] = v]
    /\ status' = [status EXCEPT ![i] = "embedded"]
    /\ ProviderCalls(1)
    /\ UNCHANGED <<contentRows, clusters, members, scoreCount, nextCluster,
                   extractTask, embedTask, clusterTask, scoreTask, batchClustered>>
    /\ OnDemandCall
    /\ UNCHANGED outsideEmbed

\* ---------------------------------------------------------------- cluster
\* cluster_all_pending: status == "embedded", an embedding row, no member row.
ClusterAllStart ==
    /\ clusterTask.pc = "idle"
    /\ clusterTask' = [IdleCluster EXCEPT
          !.pc = "run",
          !.todo = {i \in Items : /\ status[i] = "embedded"
                                  /\ embedding[i] # NoVec
                                  /\ MembershipsOf(members, i) = {}}]
    /\ UNCHANGED <<status, contentRows, embedding, clusters, members, scoreCount,
                   nextCluster, extractTask, embedTask, scoreTask, batchClustered>>
    /\ UNCHANGED <<onDemand, outsidePipeline>>

\* What the session of cluster_all_pending sees of cluster_members.
ClusterView == members \cup clusterTask.members

\* One iteration of the loop, for any item still to do (the SELECT has no
\* ORDER BY).
ClusterAllItem ==
    /\ clusterTask.pc = "run"
    /\ \E i \in clusterTask.todo :
          IF SimilarItems(i) # {}
            THEN \E best \in BestMatches(i) :
                   LET r == AddToCluster(ClusterView, i, best,
                                         Cosine(embedding[i], embedding[best]), nextCluster)
                   IN  /\ (r.clusters # {}) => nextCluster <= MaxClusters
                       /\ nextCluster' = nextCluster + Cardinality(r.clusters)
                       /\ clusterTask' =
                            IF r.outcome = "integrity" THEN IdleCluster
                            ELSE IF r.outcome = "raise"
                              THEN [clusterTask EXCEPT !.todo = @ \ {i}]
                            ELSE [clusterTask EXCEPT
                                     !.todo = @ \ {i},
                                     !.clusters = @ \cup r.clusters,
                                     !.members = @ \cup r.members,
                                     !.clustered = @ \cup {i}]
            ELSE /\ nextCluster <= MaxClusters
                 /\ nextCluster' = nextCluster + 1
                 /\ clusterTask' = [clusterTask EXCEPT
                       !.todo = @ \ {i},
                       !.clusters = @ \cup OwnCluster(i, nextCluster).clusters,
                       !.members = @ \cup OwnCluster(i, nextCluster).members,
                       !.clustered = @ \cup {i}]
    /\ UNCHANGED <<status, contentRows, embedding, clusters, members, scoreCount,
                   extractTask, embedTask, scoreTask, batchClustered>>
    /\ UNCHANGED <<onDemand, outsidePipeline>>

\* session.commit() after the loop.  A member row that another session has
\* committed meanwhile makes the commit fail on the primary key.
ClusterAllCommit ==
    /\ clusterTask.pc = "run"
    /\ clusterTask.todo = {}
    /\ IF \E m \in clusterTask.members : MemberKeyTaken(members, m.cluster_id, m.raw_item_id)
         THEN UNCHANGED <<status, clusters, members, batchClustered>>
         ELSE /\ clusters' = clusters \cup clusterTask.clusters
              /\ members' = members \cup clusterTask.members
              /\ status' = [i \in Items |->
                              IF i \in clusterTask.clustered THEN "clustered" ELSE status[i]]
              /\ batchClustered' = batchClustered \cup clusterTask.clustered
    /\ clusterTask' = IdleCluster
    /\ UNCHANGED <<contentRows, embedding, scoreCount, nextCluster,
                   extractTask, embedTask, scoreTask>>
    /\ UNCHANGED <<onDemand, outsidePipeline>>

\* assign_cluster of an existing item.
AssignCluster(i) ==
    /\ IF embedding[i] # NoVec /\ SimilarItems(i) # {}
         THEN \E best \in BestMatches(i) :
                LET r == AddToCluster(members, i, best,
                                      Cosine(embedding[i], embedding[best]), nextCluster)
                IN  /\ r.outcome = "ok"
                    /\ (r.clusters # {}) => nextCluster <= MaxClusters
                    /\ nextCluster' = nextCluster + Cardinality(r.clusters)
                    /\ clusters' = clusters \cup r.clusters
                    /\ members' = members \cup r.members
                    /\ UNCHANGED status
         ELSE /\ nextCluster <= MaxClusters
              /\ nextCluster' = nextCluster + 1
              /\ clusters' = clusters \cup OwnCluster(i, nextCluster).clusters
              /\ members' = members \cup OwnCluster(i, nextCluster).members
              /\ status' = [status EXCEPT ![i] = "clustered"]
    /\ UNCHANGED <<contentRows, embedding, scoreCount,
                   extractTask, embedTask, clusterTask, scoreTask, batchClustered>>
    /\ OnDemandCall
    /\ UNCHANGED outsidePipeline

\* A variant of the UPDATE of merge_clusters: the moved row's flag is flipped.
MovedMemberTogglesCanonical(m, target_cluster_id) ==
    [m EXCEPT !.cluster_id = target_cluster_id, !.is_canonical = ~m.is_canonical]

\* A mutant of the UPDATE of merge_clusters: the moved row keeps its flag.
MovedMemberKeepsCanonical(m, target_cluster_id) ==
    [m EXCEPT !.cluster_id = target_cluster_id]

\* update(ClusterMember).values(cluster_id=target_cluster_id, is_canonical=False)
MovedMember(m, target_cluster_id) ==
    [m EXCEPT !.cluster_id = target_cluster_id, !.is_canonical = FALSE]

\* The state after the loop of merge_clusters has handled cluster_ids[k..]:
\* [ok, clusters, members]; ok is FALSE once an UPDATE hit the primary key.
RECURSIVE MergeFrom(_, _, _)
MergeFrom(cluster_ids, k, st) ==
    IF k > Len(cluster_ids) \/ ~st.ok THEN st
    ELSE LET target == cluster_ids[1]
             cid == cluster_ids[k]
             moving == MembersOf(st.members, cid)
             staying == st.members \ moving
             moved == {MovedMember(m, target) : m \in moving}
             clash == /\ cid # target
                      /\ \E m \in moving : MemberKeyTaken(staying, target, m.raw_item_id)
         IN  IF clash THEN [st EXCEPT !.ok = FALSE]
             ELSE MergeFrom(cluster_ids, k + 1,
                    [ok |-> TRUE,
                     members |-> staying \cup moved,
                     clusters |-> {IF c.id = cid THEN [c EXCEPT !.status = "merged"] ELSE c :
                                      c \in st.clusters}])

MergeLists == UNION {[1..n -> {c.id : c \in clusters}] : n \in 2..MaxMerge}

\* merge_clusters(cluster_ids) for a list of existing cluster ids.
MergeClusters(cluster_ids) ==
    LET r == MergeFrom(cluster_ids, 2, [ok |-> TRUE, clusters |-> clusters, members |-> members])
    IN  /\ OnDemandCall
        /\ r.ok
        /\ clusters' = r.clusters
        /\ members' = r.members
        /\ UNCHANGED <<status, contentRows, embedding, scoreCount, nextCluster,
                       extractTask, embedTask, clusterTask, scoreTask, batchClustered>>
        /\ UNCHANGED outsidePipeline

\* archive_old_clusters: the open clusters created before the cutoff (ids are
\* handed out in creation order, so these are the ids up to some k).
ArchiveOldClusters(k) ==
    /\ \E c \in clusters : c.id <= k /\ c.status = "open"
    /\ clusters' = {IF c.id <= k /\ c.status = "open"
                      THEN [c EXCEPT !.status = "archived"] ELSE c : c \in clusters}
    /\ UNCHANGED <<status, contentRows, embedding, members, scoreCount, nextCluster,
                   extractTask, embedTask, clusterTask, scoreTask, batchClustered>>
    /\ OnDemandCall
    /\ UNCHANGED outsidePipeline

\* ------------------------------------------------------------------ score
\* score_all: the SELECT of its batch.
ScoreAllBatch == {i \in Items : status[i] = "extracted" /\ scoreCount[i] = 0}

ScoreAllStart ==
    /\ scoreTask.pc = "idle"
    /\ scoreTask' = [pc |-> "run", batch |-> ScoreAllBatch]
    /\ UNCHANGED <<status, contentRows, embedding, clusters, members, scoreCount,
                   nextCluster, extractTask, embedTask, clusterTask, batchClustered>>
    /\ UNCHANGED <<onDemand, outsidePipeline>>

\* _score_item for a set of items: an ItemScore row each, status = "scored".
Scored(its) ==
    /\ \A i \in its : scoreCount[i] < MaxScores
    /\ scoreCount' = [i \in Items |-> IF i \in its THEN scoreCount[i] + 1 ELSE scoreCount[i]]
    /\ status' = [i \in Items |-> IF i \in its THEN "scored" ELSE status[i]]

\* The loop of score_all and its commit.
ScoreAllFinish ==
    /\ scoreTask.pc = "run"
    /\ Scored(scoreTask.batch)
    /\ scoreTask' = IdleBatch
    /\ UNCHANGED <<contentRows, embedding, clusters, members, nextCluster,
                   extractTask, embedTask, clusterTask, batchClustered>>
    /\ UNCHANGED <<onDemand, outsidePipeline>>

\* score_item of an existing item.
ScoreItem(i) ==
    /\ Scored({i})
    /\ UNCHANGED <<contentRows, embedding, clusters, members, nextCluster,
                   extractTask, embedTask, clusterTask, scoreTask, batchClustered>>
    /\ OnDemandCall
    /\ UNCHANGED outsidePipeline

\* score_cluster: every item with a member row in the cluster.
ScoreCluster(c) ==
    /\ MembersOf(members, c) # {}
    /\ Scored({m.raw_item_id : m \in MembersOf(members, c)})
    /\ UNCHANGED <<contentRows, embedding, clusters, members, nextCluster,
                   extractTask, embedTask, clusterTask, scoreTask, batchClustered>>
    /\ OnDemandCall
    /\ UNCHANGED outsidePipeline

(***************************************************************************)
(* Scoring: the ItemScore row of _score_item                               *)
(*                                                                         *)
(* An axis score x is held as the integer x * One; signal_score, a sum of  *)
(* axis scores weighted in hundredths, as the integer signal_score * 100 * *)
(* One.  Every input below gives exact integers.                           *)
(***************************************************************************)
One == 1000

\* ScoringService.WEIGHTS, in hundredths.
WEIGHTS == [relevance |-> 40, velocity |-> 20, cross_source |-> 20, novelty |-> 20]

NoRow == [written |-> FALSE]

\* max(0.0, min(1.0, x)), without the clipping (a mutant).
ClipOff(x) == x

\* max(0.0, min(1.0, x))
Clip(x) == IF x < 0 THEN 0 ELSE IF x > One THEN One ELSE x

\* raw_payload: no engagement keys, or hn_id / reddit_id with a score and,
\* for Reddit, an upvote_ratio in hundredths.
PayloadScores == {-5, 0, 100, 500}
UpvoteRatios == {0, 50, 100}
Payloads ==
    {[kind |-> "none", score |-> 0, upvote_ratio |-> 50]}
        \cup [kind : {"hn", "reddit"}, score : PayloadScores, upvote_ratio : UpvoteRatios]

\* Source.credibility_tier, an unconstrained integer column.
Tiers == 0..MaxTier

\* What count(ClusterMember) of the item's cluster returns (0: no cluster).
ClusterSizes == 0..MaxClusterSize

\* Age in hours of published_at, or of fetched_at when published_at is null.
AgeHours == {5, 23, 71, MaxAgeHours}

\* The relevance path: AI scoring off, the LLM call failing, or its JSON
\* answer: a "score" in tenths of a point of the 0..10 scale (50: the key is
\* missing, the default 5), or NaN, which json.loads accepts.
AiOutcomes ==
    {[kind |-> "off", score |-> 0], [kind |-> "error", score |-> 0], [kind |-> "nan", score |-> 0]}
        \cup [kind : {"answer"}, score : {-50, 50, 75, 150}]

\* len(item.raw_text) and len(item.title), at and next to the two limits of
\* the heuristic (a missing raw_text counts like a short one).
BodyLengths == {200, 201}
TitleLengths == {19, 20}

ScoreInputs ==
    [payload : Payloads, credibility_tier : Tiers, body_length : BodyLengths,
     title_length : TitleLengths,
     cluster_size : ClusterSizes, has_published_at : BOOLEAN, age_hours : AgeHours,
     ai : AiOutcomes]

\* _compute_relevance_ai: result.get("score", 5) / 10.0, clipped; min(1.0, nan)
\* is 1.0 in Python.
ComputeRelevanceAi(in) ==
    IF in.ai.kind = "nan" THEN Clip(One) ELSE Clip((in.ai.score * One) \div 100)

\* _compute_relevance_heuristic
ComputeRelevanceHeuristic(in) ==
    Clip((in.credibility_tier * One) \div 5
         + (IF in.body_length > 200 THEN One \div 10 ELSE 0)
         - (IF in.title_length < 20 THEN One \div 10 ELSE 0))

\* _compute_relevance: the AI score when enabled and the call succeeds.
ComputeRelevance(in) ==
    IF in.ai.kind \in {"answer", "nan"} THEN ComputeRelevanceAi(in)
    ELSE ComputeRelevanceHeuristic(in)

Min(a, b) == IF a < b THEN a ELSE b

\* _compute_velocity
ComputeVelocity(in) ==
    LET p == in.payload
        score == IF p.kind = "hn" THEN Min(One, (p.score * One) \div 200)
                 ELSE IF p.kind = "reddit"
                   THEN Min(One, (p.score * p.upvote_ratio * One) \div (500 * 100))
                 ELSE One \div 2
    IN  Clip(score)

\* _compute_cross_source with "more than 3" for the top value (a mutant).
ComputeCrossSourceAboveThree(in) ==
    LET cluster_size == IF in.cluster_size = 0 THEN 1 ELSE in.cluster_size
    IN  IF cluster_size > 3 THEN One
        ELSE IF cluster_size = 2 THEN (7 * One) \div 10
        ELSE (3 * One) \div 10

\* _compute_cross_source: count() of the members of the item's cluster, 0
\* rows counted as 1.
ComputeCrossSource(in) ==
    LET cluster_size == IF in.cluster_size = 0 THEN 1 ELSE in.cluster_size
    IN  IF cluster_size >= 3 THEN One
        ELSE IF cluster_size = 2 THEN (7 * One) \div 10
        ELSE (3 * One) \div 10

\* _compute_novelty
ComputeNovelty(in) ==
    IF in.has_published_at
      THEN IF in.age_hours < 6 THEN (9 * One) \div 10
           ELSE IF in.age_hours < 24 THEN (7 * One) \div 10
           ELSE IF in.age_hours < 72 THEN (5 * One) \div 10
           ELSE (3 * One) \div 10
      ELSE IF in.age_hours < 6 THEN (8 * One) \div 10
           ELSE IF in.age_hours < 24 THEN (6 * One) \div 10
           ELSE (4 * One) \div 10

\* settings.AI_SCORING_ENABLED: on whenever the relevance path is not "off"
\* ("error" stands for the call failing and for no client being available).
AiScoringEnabled(in) == in.ai.kind # "off"

\* The ItemScore row _score_item builds; score_meta.ai_scored is the setting.
ItemScoreRow(in) ==
    LET relevance == ComputeRelevance(in)
        velocity == ComputeVelocity(in)
        cross_source == ComputeCrossSource(in)
        novelty == ComputeNovelty(in)
    IN  [written |-> TRUE,
         relevance_score |-> relevance,
         velocity_score |-> velocity,
         cross_source_score |-> cross_source,
         novelty_score |-> novelty,
         signal_score |-> WEIGHTS.relevance * relevance + WEIGHTS.velocity * velocity
                          + WEIGHTS.cross_source * cross_source + WEIGHTS.novelty * novelty,
         ai_scored |-> AiScoringEnabled(in)]

\* _score_item on the inputs drawn: the row is added to the session.
ScoreItemRow ==
    /\ scoreRow = NoRow
    /\ scoreRow' = ItemScoreRow(scoreIn)
    /\ UNCHANGED <<scoreIn, ingestVars, pipeVars, briefVars, restVars>>

ScoreIdle ==
    /\ scoreIn = CHOOSE in \in ScoreInputs : TRUE
    /\ scoreRow = NoRow

(***************************************************************************)
(* Briefings: generate_for_user over the item_scores table                 *)
(***************************************************************************)
\* signal_score values, in hundredths, a score row can hold.
SignalValues == {45, 55, 65}

\* BriefingService.high_signal_threshold = 0.5, in hundredths.
high_signal_threshold == 50

\* A row is added to item_scores (primary key raw_item_id, computed_at).
WriteItemScore(i, s) ==
    /\ Len(itemScores[i]) < MaxScoreRows
    /\ itemScores' = [itemScores EXCEPT ![i] = Append(@, s)]
    /\ UNCHANGED <<itemRecent, briefingItems, briefingNo, lastBriefing>>
    /\ UNCHANGED <<ingestVars, pipeVars, scoreVars, restVars>>

\* The rows of the join of _get_user_signals: one per ItemScore row of an item
\* fetched within 24 hours whose signal_score reaches the threshold.
SignalRows ==
    {r \in [id : Items, k : 1..MaxScoreRows] :
        /\ r.k <= Len(itemScores[r.id])
        /\ itemRecent[r.id]
        /\ itemScores[r.id][r.k] >= high_signal_threshold}

RowScore(r) == itemScores[r.id][r.k]

\* ORDER BY signal_score DESC LIMIT 2N, then rows[:N]: any N rows of highest
\* score (ties in any order).
TopSignals ==
    {S \in SUBSET SignalRows :
        /\ Cardinality(S) = Min(max_items_per_briefing, Cardinality(SignalRows))
        /\ \A r \in S, q \in SignalRows \ S : RowScore(r) >= RowScore(q)}

\* signals: the rows kept, in the order of the query (highest score first,
\* equal scores in any order); one entry per ItemScore row.
Signals ==
    UNION {{q \in [1..Cardinality(S) -> S] :
               /\ \A a, b \in 1..Cardinality(S) : a # b => q[a] # q[b]
               /\ \A a, b \in 1..Cardinality(S) : a < b => RowScore(q[a]) >= RowScore(q[b])}
           : S \in TopSignals}

\* s["id"] of every signal.
SignalIds(signals) == [k \in 1..Len(signals) |-> signals[k].id]

\* The most recent ItemScore of an item (0 when it has none).
LatestScore(i) == IF itemScores[i] = <<>> THEN 0 ELSE itemScores[i][Len(itemScores[i])]

\* An entry of an LLM answer's items_used that UUID() rejects.
NotAUuid == 0

\* What an LLM answer can list as items_used: ids of items and other values.
UsedLists == UNION {[1..n -> Items \cup {NotAUuid}] : n \in 0..MaxUsed}

\* The LLM path: no client, complete_json raising (transport), complete_json
\* returning an "error" key (unparsable JSON), or a JSON object with or
\* without the keys "briefing" and "items_used".
LlmOutcomes ==
    [kind : {"no_client", "raises", "error"}, has_briefing : {FALSE},
     has_items_used : {FALSE}, items_used : {<<>>}]
        \cup [kind : {"answer"}, has_briefing : BOOLEAN, has_items_used : {FALSE},
              items_used : {<<>>}]
        \cup [kind : {"answer"}, has_briefing : BOOLEAN, has_items_used : {TRUE},
              items_used : UsedLists]

\* No AI provider is configured: get_ai_client() fails.
NoProvider == {llm \in LlmOutcomes : llm.kind = "no_client"}

\* _generate_fallback_briefing: the template and the ids of signals[:N].
GenerateFallbackBriefing(signals) ==
    [briefing |-> "fallback_markdown",
     items_used |-> SubSeq(SignalIds(signals), 1, Min(Len(signals), max_items_per_briefing)),
     fallback |-> TRUE]

\* _generate_briefing_content
GenerateBriefingContent(signals, llm) ==
    IF llm.kind \in {"no_client", "raises", "error"}
      THEN GenerateFallbackBriefing(signals)
      ELSE [briefing |-> IF llm.has_briefing THEN "llm_markdown" ELSE "",
            items_used |-> IF llm.has_items_used THEN llm.items_used
                           ELSE SignalIds(signals),
            fallback |-> FALSE]

NoBriefing == [id |-> 0]

\* The BriefingItem rows of the loop over enumerate(items_used, start=1): an
\* entry UUID() rejects is logged and skipped.
BriefingItemsFor(items_used) ==
    {[briefing |-> briefingNo + 1, rank |-> k, raw_item_id |-> items_used[k],
      latest |-> LatestScore(items_used[k])] :
        k \in {n \in 1..Len(items_used) : items_used[n] # NotAUuid}}

\* generate_for_user from its signals to its return value: the content, the
\* Briefing row, the BriefingItem rows, the commit; outcomes is what the LLM
\* path can do.
CommitBriefing(outcomes) ==
    /\ briefingNo < MaxBriefings
    /\ SignalRows # {}
    /\ \E signals \in Signals, llm \in outcomes :
          LET content == GenerateBriefingContent(signals, llm)
          IN  /\ briefingItems' = briefingItems \cup BriefingItemsFor(content.items_used)
              /\ lastBriefing' = [id |-> briefingNo + 1,
                               signals |-> SignalIds(signals),
                               llm |-> llm.kind,
                               has_briefing |-> llm.has_briefing,
                               summary_md |-> content.briefing,
                               fallback |-> content.fallback,
                               items_included |-> Len(content.items_used)]
    /\ briefingNo' = briefingNo + 1

\* generate_for_user for an existing user.
GenerateForUser ==
    /\ CommitBriefing(LlmOutcomes)
    /\ UNCHANGED <<itemScores, itemRecent, ingestVars, pipeVars, scoreVars, restVars>>

BriefIdle ==
    /\ itemScores = [i \in Items |-> <<>>]
    /\ itemRecent = [i \in Items |-> TRUE]
    /\ briefingItems = {}
    /\ briefingNo = 0
    /\ lastBriefing = NoBriefing

(***************************************************************************)
(* Idle values of the variables of the sub-models below                    *)
(***************************************************************************)
\* Two HTTP calls in flight, one user.
ApiCalls == {1, 2}
Users == {"u1"}

NoResponse == [sent |-> FALSE]
IdleCall == [pc |-> "idle", user |-> "u1", force |-> FALSE, response |-> NoResponse]

ApiIdle ==
    /\ briefings = {}
    /\ apiCall = [c \in ApiCalls |-> IdleCall]
    /\ batchGen = [pc |-> "idle", todo |-> {}]
    /\ today = 1

NoOutcome == [fetch_failed |-> FALSE, task |-> "none"]

FaultIdle ==
    /\ extractCrashes = 0
    /\ extractItemErrors = {}
    /\ ingestOutcome = [w \in Workers |-> NoOutcome]

NoFetch == [done |-> FALSE]

FetchIdle ==
    /\ fetchIn = [ingester |-> "feed", max_items |-> 0, offered |-> 0]
    /\ fetchOut = NoFetch

\* Every item is an article link.
UrlIdle == url = [i \in Items |-> "article"]

\* Every item was fetched within the last 7 days.
WindowIdle == inWindow = [i \in Items |-> TRUE]

ExtraIdle == UrlIdle /\ WindowIdle

MeterIdle == embedCalls = NotCounting

\* Before the 06:50 trigger of the first day.
BeatIdle == beat = [phase |-> "night", unregistered |-> {}, selected |-> {}]

NoPick == [done |-> FALSE]

NoExact == [done |-> FALSE]

\* The duplicate checks have not been asked anything.
DupIdle ==
    /\ semIn = <<>>
    /\ semOut = NoPick
    /\ exactIn = [url_matches |-> 0, title_matches |-> 0, old_title_matches |-> 0]
    /\ exactOut = NoExact

\* The worker processes of the score queue.
ScoreWorkers == {1, 2}

IdleRun == [pc |-> "idle", batch |-> {}, runs |-> 0]

\* No worker process runs score_all.
OverlapIdle == scoreRuns = [w \in ScoreWorkers |-> IdleRun]

RestIdle == ApiIdle /\ FaultIdle /\ FetchIdle /\ ExtraIdle /\ MeterIdle /\ BeatIdle /\ DupIdle /\ OverlapIdle

(***************************************************************************)
(* fetch() of the three ingesters and the inserts of the run               *)
(*                                                                         *)
(* fetchIn is the run's input: the ingester, MAX_ITEMS_PER_SOURCE and the  *)
(* number of entries the remote listing holds.  The Reddit server is taken *)
(* to return no more children than the limit it is sent.                   *)
(***************************************************************************)
Ingesters == {"feed", "hn", "reddit", "reddit_unauthenticated"}

\* feed.entries[:100]
rss_entry_limit == 100

\* min(25, self.max_items)
unauthenticated_limit == 25

\* Length of xs[:k] for a list of n elements, k >= 0.
Slice(n, k) == Min(n, k)

\* The entries fetch() goes through.
Fetched(in) ==
    IF in.ingester = "feed" THEN Slice(in.offered, rss_entry_limit)
    ELSE IF in.ingester = "hn" THEN Slice(in.offered, in.max_items)
    ELSE IF in.ingester = "reddit" THEN Slice(in.offered, in.max_items)
    ELSE Slice(in.offered, Min(unauthenticated_limit, in.max_items))

\* One run of ingest: of the entries gone through some parse to an item,
\* and of these the ones not yet in raw_items are inserted.
IngestRun ==
    /\ fetchOut = NoFetch
    /\ \E parsed \in 0..Fetched(fetchIn) : \E ins \in 0..parsed :
          fetchOut' = [done |-> TRUE, error |-> FALSE,
                       items_fetched |-> parsed, items_inserted |-> ins]
    /\ UNCHANGED <<fetchIn, ingestVars, pipeVars, scoreVars, briefVars, apiVars, faultVars,
                   extraVars, meterVars, beatVars, dupVars, overlapVars>>

(***************************************************************************)
(* POST /briefings/generate and generate_all_pending                       *)
(*                                                                         *)
(* Briefing ids are handed out in creation order, so the latest briefing   *)
(* of a user is the one of largest id.  `forced` is not a column: it       *)
(* records whether the creating call had force = true.                     *)
(***************************************************************************)
outsideApi == <<ingestVars, pipeVars, scoreVars, faultVars, fetchVars, extraVars, meterVars,
                beatVars, dupVars, overlapVars>>

\* The briefings with scope user:<u>.
UserBriefings(u) == {b \in briefings : b.user = u}

\* The first of the user's briefings in creation order (a mutant of the
\* ORDER BY of get_user_briefings).
OldestBriefing(u) ==
    CHOOSE b \in UserBriefings(u) : \A o \in UserBriefings(u) : b.id <= o.id

\* get_user_briefings(user_id, limit=1)[0]: ORDER BY created_at DESC.
LatestBriefing(u) ==
    CHOOSE b \in UserBriefings(u) : \A o \in UserBriefings(u) : o.id <= b.id

\* generate_for_user reaching its commit, in a deployment without AI
\* provider (the content is the fallback's): the Briefing row and one
\* BriefingItem per item used.
CreateBriefing(u, forced) ==
    /\ CommitBriefing(NoProvider)
    /\ briefings' = briefings \cup
          {[id |-> briefingNo + 1, user |-> u, day |-> today, forced |-> forced]}

Response(code, generated, id) ==
    [sent |-> TRUE, status_code |-> code, generated |-> generated, briefing_id |-> id]

\* generate_briefing up to the call of generate_for_user: without force, the
\* latest briefing of the user is read and, when its date is today's, the
\* call returns it.
ApiCheck(c, u, force) ==
    /\ apiCall[c].pc = "idle"
    /\ apiCall' = [apiCall EXCEPT ![c] =
          IF ~force /\ UserBriefings(u) # {} /\ LatestBriefing(u).day = today
            THEN [pc |-> "done", user |-> u, force |-> force,
                  response |-> Response(200, FALSE, LatestBriefing(u).id)]
            ELSE [pc |-> "generate", user |-> u, force |-> force, response |-> NoResponse]]
    /\ UNCHANGED <<briefings, batchGen, today, briefVars, outsideApi>>

\* generate_briefing: generate_for_user creates the briefing.
ApiGenerate(c) ==
    /\ apiCall[c].pc = "generate"
    /\ CreateBriefing(apiCall[c].user, apiCall[c].force)
    /\ apiCall' = [apiCall EXCEPT ![c].pc = "done",
                                   ![c].response = Response(200, TRUE, briefingNo + 1)]
    /\ UNCHANGED <<batchGen, today, itemScores, itemRecent, outsideApi>>

\* generate_briefing: generate_for_user returns an error, HTTP 400.
ApiGenerateError(c) ==
    /\ apiCall[c].pc = "generate"
    /\ SignalRows = {}
    /\ apiCall' = [apiCall EXCEPT ![c].pc = "done", ![c].response = Response(400, FALSE, 0)]
    /\ UNCHANGED <<briefings, batchGen, today, briefVars, outsideApi>>

\* generate_all_pending: the users without a briefing since today's midnight.
BatchSelect ==
    /\ batchGen.pc = "idle"
    /\ batchGen' = [pc |-> "run",
                    todo |-> {u \in Users : ~\E b \in UserBriefings(u) : b.day >= today}]
    /\ UNCHANGED <<briefings, apiCall, today, briefVars, outsideApi>>

\* generate_all_pending: generate_for_user for one of the users selected.
BatchGenerate(u) ==
    /\ batchGen.pc = "run"
    /\ u \in batchGen.todo
    /\ IF SignalRows # {}
         THEN CreateBriefing(u, FALSE)
         ELSE UNCHANGED <<briefings, briefingItems, briefingNo, lastBriefing>>
    /\ batchGen' = [batchGen EXCEPT !.todo = @ \ {u}]
    /\ UNCHANGED <<apiCall, today, itemScores, itemRecent, outsideApi>>

BatchReturn ==
    /\ batchGen.pc = "run"
    /\ batchGen.todo = {}
    /\ batchGen' = [pc |-> "idle", todo |-> {}]
    /\ UNCHANGED <<briefings, apiCall, today, briefVars, outsideApi>>

\* The UTC date changes.
Midnight ==
    /\ today < MaxDays
    /\ today' = today + 1
    /\ UNCHANGED <<briefings, apiCall, batchGen, briefVars, outsideApi>>

(***************************************************************************)
(* The daily triggers: briefing generation at 06:50, emails at 07:00       *)
(***************************************************************************)
\* beat_schedule: the task each daily entry names.
BeatSchedule ==
    [generate_daily_briefing |-> "app.workers.tasks.briefing_tasks.generate_global_briefing",
     send_daily_briefings |-> "app.workers.tasks.email_tasks.send_daily_briefings"]

\* The tasks briefing_tasks.py registers (shared_task names the function).
BriefingTasks ==
    {"app.workers.tasks.briefing_tasks.generate_all_briefings",
     "app.workers.tasks.briefing_tasks.generate_user_briefing",
     "app.workers.tasks.briefing_tasks.get_user_briefings",
     "app.workers.tasks.briefing_tasks.get_briefing_detail"}

outsideBeat == <<ingestVars, pipeVars, scoreVars, faultVars, fetchVars, extraVars, meterVars,
                 dupVars, overlapVars>>

\* 06:50: beat sends the task the entry names.  The worker runs it if it is
\* registered, and generate_all_briefings runs generate_all_pending; a
\* message naming an unregistered task is discarded.
BeatGenerate ==
    /\ beat.phase = "night"
    /\ batchGen.pc = "idle"
    /\ LET task == BeatSchedule.generate_daily_briefing
       IN  IF task = "app.workers.tasks.briefing_tasks.generate_all_briefings"
             THEN /\ batchGen' = [pc |-> "run",
                                  todo |-> {u \in Users :
                                              ~\E b \in UserBriefings(u) : b.day >= today}]
                  /\ beat' = [beat EXCEPT !.phase = "0650"]
           ELSE IF task \in BriefingTasks
             THEN /\ UNCHANGED batchGen
                  /\ beat' = [beat EXCEPT !.phase = "0650"]
           ELSE /\ UNCHANGED batchGen
                /\ beat' = [beat EXCEPT !.phase = "0650", !.unregistered = @ \cup {task}]
    /\ UNCHANGED <<briefings, apiCall, today, briefVars, outsideBeat>>

\* 07:00: send_daily_briefings selects the briefings generated today.  A
\* generation started at 06:50 has ended by then (task_time_limit = 600).
BeatEmail ==
    /\ beat.phase = "0650"
    /\ batchGen.pc = "idle"
    /\ beat' = [beat EXCEPT !.phase = "0700",
                            !.selected = {b.id : b \in {x \in briefings : x.day = today}}]
    /\ UNCHANGED <<briefings, apiCall, batchGen, today, briefVars, outsideBeat>>

\* The UTC date changes after the day's triggers.
BeatMidnight ==
    /\ beat.phase = "0700"
    /\ today < MaxDays
    /\ today' = today + 1
    /\ beat' = [beat EXCEPT !.phase = "night", !.selected = {}]
    /\ UNCHANGED <<briefings, apiCall, batchGen, briefVars, outsideBeat>>

(***************************************************************************)
(* The extract stage with failures                                         *)
(***************************************************************************)
\* extract_item of an item that has an ExtractedContent row already, the
\* extraction succeeding: the INSERT violates the primary key, the call
\* raises and nothing is written.
ExtractItemRaises(i) ==
    /\ url[i] # "none"
    /\ contentRows[i] > 0
    /\ extractItemErrors' = extractItemErrors \cup {i}
    /\ OnDemandCall
    /\ UNCHANGED <<status, contentRows, embedding, clusters, members, scoreCount, nextCluster,
                   extractTask, embedTask, clusterTask, scoreTask, batchClustered>>
    /\ UNCHANGED <<extractCrashes, ingestOutcome, apiVars, fetchVars, extraVars, meterVars, beatVars, dupVars, overlapVars,
                   ingestVars, scoreVars, briefVars>>

\* The worker running extract_all_pending is killed before the commit: the
\* session's writes are lost, the task is delivered again (late ack) or the
\* next tick starts it.
ExtractAllCrash ==
    /\ extractTask.pc = "run"
    /\ extractCrashes < MaxCrashes
    /\ extractCrashes' = extractCrashes + 1
    /\ extractTask' = IdleBatch
    /\ UNCHANGED <<status, contentRows, embedding, clusters, members, scoreCount, nextCluster,
                   embedTask, clusterTask, scoreTask, batchClustered, onDemand>>
    /\ UNCHANGED <<extractItemErrors, ingestOutcome, apiVars, fetchVars, extraVars, meterVars, beatVars, dupVars, overlapVars,
                   ingestVars, scoreVars, briefVars>>

PipeInit ==
    /\ status = [i \in Items |-> "new"]
    /\ contentRows = [i \in Items |-> 0]
    /\ embedding = [i \in Items |-> NoVec]
    /\ clusters = {}
    /\ members = {}
    /\ scoreCount = [i \in Items |-> 0]
    /\ nextCluster = 1
    /\ extractTask = IdleBatch
    /\ embedTask = IdleBatch
    /\ clusterTask = IdleCluster
    /\ scoreTask = IdleBatch
    /\ batchClustered = {}
    /\ onDemand = 0

\* No ingest run in the pipeline sub-model: the items are in raw_items already.
IngestIdle ==
    /\ listing = <<>>
    /\ rawItems = {}
    /\ pc = [w \in Workers |-> "idle"]
    /\ idx = [w \in Workers |-> 1]
    /\ pending = [w \in Workers |-> {}]
    /\ inserted_count = [w \in Workers |-> 0]
    /\ runNo = [w \in Workers |-> 0]
    /\ rowsAtStart = [w \in Workers |-> {}]

InitPipeline == IngestIdle /\ PipeInit /\ ScoreIdle /\ BriefIdle /\ RestIdle

\* Every stage operation, periodic or on demand, in any interleaving.
NextPipeline ==
    \/ ExtractAllStart
    \/ ExtractAllFinish
    \/ \E i \in Items : ExtractItem(i)
    \/ EmbedAllStart
    \/ EmbedAllFinish
    \/ \E i \in Items, v \in Vectors : EmbedItem(i, v)
    \/ ClusterAllStart
    \/ ClusterAllItem
    \/ ClusterAllCommit
    \/ \E i \in Items : AssignCluster(i)
    \/ ScoreAllStart
    \/ ScoreAllFinish
    \/ \E i \in Items : ScoreItem(i)
    \/ \E c \in ClusterIds : ScoreCluster(c)

SpecPipeline == InitPipeline /\ [][NextPipeline]_vars

\* The four periodic tasks of the beat schedule alone, every external call
\* (extraction, embedding) succeeding.
ExtractAllSucceeds == ExtractAllFinishWith({TRUE})
EmbedAllSucceeds == EmbedAllFinishWith(Vectors)

NextPeriodic ==
    \/ ExtractAllStart
    \/ ExtractAllSucceeds
    \/ EmbedAllStart
    \/ EmbedAllSucceeds
    \/ ClusterAllStart
    \/ ClusterAllItem
    \/ ClusterAllCommit
    \/ ScoreAllStart
    \/ ScoreAllFinish

\* Beat fires every trigger again and again and a started task runs to its end.
FairPeriodic ==
    /\ WF_vars(ExtractAllStart) /\ WF_vars(ExtractAllSucceeds)
    /\ WF_vars(EmbedAllStart) /\ WF_vars(EmbedAllSucceeds)
    /\ WF_vars(ClusterAllStart) /\ WF_vars(ClusterAllItem) /\ WF_vars(ClusterAllCommit)
    /\ WF_vars(ScoreAllStart) /\ WF_vars(ScoreAllFinish)

SpecPeriodic == InitPipeline /\ [][NextPeriodic]_vars /\ FairPeriodic

\* The clustering operations on items that are embedded already, whatever
\* their vectors.
InitCluster ==
    /\ IngestIdle
    /\ status = [i \in Items |-> "embedded"]
    /\ contentRows = [i \in Items |-> 1]
    /\ embedding \in [Items -> Vectors]
    /\ clusters = {}
    /\ members = {}
    /\ scoreCount = [i \in Items |-> 0]
    /\ nextCluster = 1
    /\ extractTask = IdleBatch
    /\ embedTask = IdleBatch
    /\ clusterTask = IdleCluster
    /\ scoreTask = IdleBatch
    /\ batchClustered = {}
    /\ onDemand = 0
    /\ ScoreIdle
    /\ BriefIdle
    /\ RestIdle

NextCluster ==
    \/ ClusterAllStart
    \/ ClusterAllItem
    \/ ClusterAllCommit
    \/ \E i \in Items : AssignCluster(i)
    \/ \E ids \in MergeLists : MergeClusters(ids)
    \/ \E k \in ClusterIds : ArchiveOldClusters(k)

SpecCluster == InitCluster /\ [][NextCluster]_vars

\* _score_item applied once to every combination of inputs.
InitScore ==
    /\ IngestIdle
    /\ PipeInit
    /\ BriefIdle
    /\ scoreIn \in ScoreInputs
    /\ scoreRow = NoRow
    /\ RestIdle

NextScore == ScoreItemRow

SpecScore == InitScore /\ [][NextScore]_vars

\* Score rows arriving and briefings being generated, in any order.
InitBriefing ==
    /\ IngestIdle
    /\ PipeInit
    /\ ScoreIdle
    /\ itemScores = [i \in Items |-> <<>>]
    /\ itemRecent \in [Items -> BOOLEAN]
    /\ briefingItems = {}
    /\ briefingNo = 0
    /\ lastBriefing = NoBriefing
    /\ RestIdle

NextBriefing ==
    \/ \E i \in Items, s \in SignalValues : WriteItemScore(i, s)
    \/ GenerateForUser

SpecBriefing == InitBriefing /\ [][NextBriefing]_vars

\* HTTP calls, the batch task and midnight in any interleaving, over items
\* that have a score of 0.65 each and are all recent, or all older than a day.
InitBriefingApi ==
    /\ IngestIdle
    /\ PipeInit
    /\ ScoreIdle
    /\ itemScores = [i \in Items |-> <<65>>]
    /\ \E recent \in BOOLEAN : itemRecent = [i \in Items |-> recent]
    /\ briefingItems = {}
    /\ briefingNo = 0
    /\ lastBriefing = NoBriefing
    /\ RestIdle

NextBriefingApi ==
    \/ \E c \in ApiCalls, u \in Users, force \in BOOLEAN : ApiCheck(c, u, force)
    \/ \E c \in ApiCalls : ApiGenerate(c)
    \/ \E c \in ApiCalls : ApiGenerateError(c)
    \/ BatchSelect
    \/ \E u \in Users : BatchGenerate(u)
    \/ BatchReturn
    \/ Midnight

SpecBriefingApi == InitBriefingApi /\ [][NextBriefingApi]_vars

\* The day's triggers, with users calling POST /briefings/generate and
\* generate_all_briefings enqueued by hand.
NextBeat ==
    \/ BeatGenerate
    \/ BatchSelect
    \/ \E u \in Users : BatchGenerate(u)
    \/ BatchReturn
    \/ BeatEmail
    \/ BeatMidnight
    \/ \E c \in ApiCalls, u \in Users, force \in BOOLEAN : ApiCheck(c, u, force)
    \/ \E c \in ApiCalls : ApiGenerate(c)
    \/ \E c \in ApiCalls : ApiGenerateError(c)

SpecBeat == InitBriefingApi /\ [][NextBeat]_vars

\* The extract stage alone: the periodic task, kills of its worker, and
\* extract_item calls; a task that is started runs to its end or is killed.
NextExtract ==
    \/ ExtractAllStart
    \/ ExtractAllFinish
    \/ ExtractAllCrash
    \/ \E i \in Items : ExtractItem(i)
    \/ \E i \in Items : ExtractItemRaises(i)

FairExtract == WF_vars(ExtractAllStart) /\ WF_vars(ExtractAllFinish)

SpecExtract == InitPipeline /\ [][NextExtract]_vars /\ FairExtract

\* The extract stage on items of every kind of URL.
InitExtractKinds ==
    /\ IngestIdle /\ PipeInit /\ ScoreIdle /\ BriefIdle
    /\ ApiIdle /\ FaultIdle /\ FetchIdle /\ MeterIdle /\ BeatIdle /\ DupIdle /\ OverlapIdle
    /\ WindowIdle
    /\ url \in [Items -> UrlKinds]

SpecExtractKinds == InitExtractKinds /\ [][NextExtract]_vars

\* A new hour begins: no call lies in the current one-hour window.
HourPasses ==
    /\ embedCalls.counting
    /\ embedCalls.calls > 0
    /\ embedCalls' = [embedCalls EXCEPT !.calls = 0]
    /\ UNCHANGED <<ingestVars, pipeVars, scoreVars, briefVars,
                   apiVars, faultVars, fetchVars, extraVars, beatVars, dupVars, overlapVars>>

\* The embed operations on extracted items, the provider calls counted.
InitEmbedRate ==
    /\ IngestIdle /\ ScoreIdle /\ BriefIdle
    /\ ApiIdle /\ FaultIdle /\ FetchIdle /\ ExtraIdle /\ BeatIdle /\ DupIdle /\ OverlapIdle
    /\ status = [i \in Items |-> "extracted"]
    /\ contentRows \in [Items -> {0, 1}]
    /\ embedding = [i \in Items |-> NoVec]
    /\ clusters = {}
    /\ members = {}
    /\ scoreCount = [i \in Items |-> 0]
    /\ nextCluster = 1
    /\ extractTask = IdleBatch
    /\ embedTask = IdleBatch
    /\ clusterTask = IdleCluster
    /\ scoreTask = IdleBatch
    /\ batchClustered = {}
    /\ onDemand = 0
    /\ embedCalls = [counting |-> TRUE, calls |-> 0]

NextEmbedRate ==
    \/ EmbedAllStart
    \/ EmbedAllFinish
    \/ \E i \in Items, v \in Vectors : EmbedItem(i, v)
    \/ HourPasses

SpecEmbedRate == InitEmbedRate /\ [][NextEmbedRate]_vars

\* The clustering operations on embedded items of any age.
InitSemantic ==
    /\ IngestIdle /\ ScoreIdle /\ BriefIdle
    /\ ApiIdle /\ FaultIdle /\ FetchIdle /\ MeterIdle /\ BeatIdle /\ DupIdle /\ OverlapIdle
    /\ UrlIdle
    /\ inWindow \in [Items -> BOOLEAN]
    /\ status = [i \in Items |-> "embedded"]
    /\ contentRows = [i \in Items |-> 1]
    /\ embedding \in [Items -> Vectors]
    /\ clusters = {}
    /\ members = {}
    /\ scoreCount = [i \in Items |-> 0]
    /\ nextCluster = 1
    /\ extractTask = IdleBatch
    /\ embedTask = IdleBatch
    /\ clusterTask = IdleCluster
    /\ scoreTask = IdleBatch
    /\ batchClustered = {}
    /\ onDemand = 0

SpecSemantic == InitSemantic /\ [][NextCluster]_vars

(***************************************************************************)
(* check_semantic_duplicate and check_exact_duplicate on their own: the    *)
(* rows their queries find are the input, what they do with them the       *)
(* output.                                                                 *)
(***************************************************************************)
MaxCandidates == 2      \* other items with an embedding, fetched within the window
MaxMatches == 2         \* other items with the item's url, or with its title

Candidates == 1..MaxCandidates

\* Cosine similarities in hundredths, on both sides of the threshold.
Similarities == {91, 92, 95, 100}

\* WHERE 1 - (embedding <=> target) >= :threshold
SimilarRows(rows) == {c \in DOMAIN rows : rows[c].similarity >= semantic_threshold}

\* ORDER BY similarity DESC LIMIT 5, then similar_items[0]: a row of the
\* highest similarity; the query gives rows of equal similarity no order,
\* so the first one is whichever the plan and the heap produce first.
FirstRows(rows) ==
    {c \in SimilarRows(rows) :
        \A k \in SimilarRows(rows) : rows[c].similarity >= rows[k].similarity}

PickResult(is_dup, best, sim) ==
    [done |-> TRUE, is_dup |-> is_dup, best_match |-> best, similarity |-> sim]

\* check_semantic_duplicate of an item with an embedding.
CheckSemanticDuplicate ==
    /\ semOut = NoPick
    /\ IF SimilarRows(semIn) = {}
       THEN semOut' = PickResult(FALSE, 0, 0)
       ELSE \E b \in FirstRows(semIn) :
                semOut' = PickResult(TRUE, b, semIn[b].similarity)
    /\ UNCHANGED <<semIn, exactIn, exactOut>>
    /\ UNCHANGED <<ingestVars, pipeVars, scoreVars, briefVars, apiVars, faultVars, fetchVars,
                   extraVars, meterVars, beatVars, overlapVars>>

\* scalar_one_or_none() of a query that found n rows: the row, None, or
\* MultipleResultsFound.
ScalarOneOrNone(n) == IF n = 0 THEN "none" ELSE IF n = 1 THEN "row" ELSE "raises"

ExactResult(raised, returned, via, sim) ==
    [done |-> TRUE, raised |-> raised, returned |-> returned, via |-> via,
     similarity |-> sim]

\* check_exact_duplicate: url first, then title within the window; a match
\* is handed to _add_to_cluster with similarity 1.0.
CheckExactDuplicate ==
    /\ exactOut = NoExact
    /\ LET url_match == ScalarOneOrNone(exactIn.url_matches)
           title_match == ScalarOneOrNone(exactIn.title_matches)
       IN  exactOut' =
               IF url_match = "raises" THEN ExactResult(TRUE, FALSE, "none", 0)
               ELSE IF url_match = "row" THEN ExactResult(FALSE, TRUE, "url", 100)
               ELSE IF title_match = "raises" THEN ExactResult(TRUE, FALSE, "none", 0)
               ELSE IF title_match = "row" THEN ExactResult(FALSE, TRUE, "title", 100)
               ELSE ExactResult(FALSE, FALSE, "none", 0)
    /\ UNCHANGED <<semIn, semOut, exactIn>>
    /\ UNCHANGED <<ingestVars, pipeVars, scoreVars, briefVars, apiVars, faultVars, fetchVars,
                   extraVars, meterVars, beatVars, overlapVars>>

InitDuplicateChecks ==
    /\ IngestIdle /\ PipeInit /\ ScoreIdle /\ BriefIdle
    /\ ApiIdle /\ FaultIdle /\ FetchIdle /\ ExtraIdle /\ MeterIdle /\ BeatIdle /\ OverlapIdle
    /\ semIn \in [Candidates -> [similarity : Similarities, published_at : 1..MaxCandidates]]
    /\ semOut = NoPick
    /\ exactIn \in [url_matches : 0..MaxMatches, title_matches : 0..MaxMatches,
                     old_title_matches : 0..MaxMatches]
    /\ exactOut = NoExact

NextDuplicateChecks ==
    \/ CheckSemanticDuplicate
    \/ CheckExactDuplicate

SpecDuplicateChecks == InitDuplicateChecks /\ [][NextDuplicateChecks]_vars

(***************************************************************************)
(* score_pending_items delivered to several worker processes: each run of  *)
(* score_all has its own session, reads its batch from the committed rows  *)
(* and commits at the end.                                                 *)
(***************************************************************************)
MaxScoreRuns == 2       \* runs of score_all each worker process begins

\* score_all: the SELECT of the batch in a worker's session.
ScoreAllRunStart(w) ==
    /\ scoreRuns[w].pc = "idle"
    /\ scoreRuns[w].runs < MaxScoreRuns
    /\ scoreRuns' = [scoreRuns EXCEPT ![w] =
                        [pc |-> "run", batch |-> ScoreAllBatch, runs |-> @.runs + 1]]
    /\ UNCHANGED <<pipeVars, ingestVars, scoreVars, briefVars>>
    /\ UNCHANGED <<apiVars, faultVars, fetchVars, extraVars, meterVars, beatVars, dupVars>>

\* score_all: _score_item for every item of the batch, then the commit.  The
\* rows have the primary key (raw_item_id, computed_at), so a row of another
\* session for the same item does not conflict.
ScoreAllRunFinish(w) ==
    /\ scoreRuns[w].pc = "run"
    /\ \A i \in scoreRuns[w].batch : scoreCount[i] < MaxScoreRows
    /\ scoreCount' = [i \in Items |->
                        IF i \in scoreRuns[w].batch THEN scoreCount[i] + 1 ELSE scoreCount[i]]
    /\ status' = [i \in Items |-> IF i \in scoreRuns[w].batch THEN "scored" ELSE status[i]]
    /\ scoreRuns' = [scoreRuns EXCEPT ![w].pc = "idle", ![w].batch = {}]
    /\ UNCHANGED <<contentRows, embedding, clusters, members, nextCluster, extractTask,
                   embedTask, clusterTask, scoreTask, batchClustered, onDemand>>
    /\ UNCHANGED <<ingestVars, scoreVars, briefVars>>
    /\ UNCHANGED <<apiVars, faultVars, fetchVars, extraVars, meterVars, beatVars, dupVars>>

\* Items in any stage before scoring, or scored once already.
InitScoreOverlap ==
    /\ IngestIdle /\ ScoreIdle /\ BriefIdle
    /\ ApiIdle /\ FaultIdle /\ FetchIdle /\ ExtraIdle /\ MeterIdle /\ BeatIdle /\ DupIdle
    /\ OverlapIdle
    /\ status \in [Items -> {"new", "extracted", "embedded", "clustered", "scored"}]
    /\ scoreCount = [i \in Items |-> IF status[i] = "scored" THEN 1 ELSE 0]
    /\ contentRows = [i \in Items |-> IF status[i] = "new" THEN 0 ELSE 1]
    /\ embedding = [i \in Items |-> NoVec]
    /\ clusters = {}
    /\ members = {}
    /\ nextCluster = 1
    /\ extractTask = IdleBatch
    /\ embedTask = IdleBatch
    /\ clusterTask = IdleCluster
    /\ scoreTask = IdleBatch
    /\ batchClustered = {}
    /\ onDemand = 0

NextScoreOverlap ==
    \/ \E w \in ScoreWorkers : ScoreAllRunStart(w)
    \/ \E w \in ScoreWorkers : ScoreAllRunFinish(w)

SpecScoreOverlap == InitScoreOverlap /\ [][NextScoreOverlap]_vars

IngestInit ==
    /\ listing \in Listings
    /\ rawItems = {}
    /\ pc = [w \in Workers |-> "idle"]
    /\ idx = [w \in Workers |-> 1]
    /\ pending = [w \in Workers |-> {}]
    /\ inserted_count = [w \in Workers |-> 0]
    /\ runNo = [w \in Workers |-> 0]
    /\ rowsAtStart = [w \in Workers |-> {}]

Init == IngestInit /\ PipeInit /\ ScoreIdle /\ BriefIdle /\ RestIdle

\* Any interleaving of the workers' runs, with crashes and redelivery.
Next ==
    \E w \in Workers :
        \/ IngestBegin(w)
        \/ IngestSelect(w)
        \/ IngestInsert(w)
        \/ IngestInsertRaises(w)
        \/ IngestCommit(w)
        \/ IngestCrash(w)

Spec == Init /\ [][Next]_vars

\* One worker running ingest again and again, nothing else touching the table.
NextIngestSeq ==
    \/ IngestBegin(1)
    \/ IngestSelect(1)
    \/ IngestInsert(1)
    \/ IngestInsertRaises(1)
    \/ IngestCommit(1)

SpecIngestSeq == Init /\ [][NextIngestSeq]_vars

\* One worker's runs, some of which fail to fetch the listing.
NextIngestFetch ==
    \/ NextIngestSeq
    \/ IngestFetchRaises(1)

SpecIngestFetch == Init /\ [][NextIngestFetch]_vars

\* One run of each ingester, for every setting and every listing size.
InitFetch ==
    /\ IngestIdle /\ PipeInit /\ ScoreIdle /\ BriefIdle /\ ApiIdle /\ FaultIdle /\ ExtraIdle /\ MeterIdle
    /\ BeatIdle /\ DupIdle /\ OverlapIdle
    /\ fetchIn \in [ingester : Ingesters, max_items : 0..MaxSetting, offered : 0..MaxOffered]
    /\ fetchOut = NoFetch

NextFetch == IngestRun

SpecFetch == InitFetch /\ [][NextFetch]_vars

(***************************************************************************)
(* Claims about ingest                                                     *)
(***************************************************************************)

\* C1: in every reachable state the committed raw_items table holds at most
\* one row for each (source_id, external_id), whatever the interleaving of
\* ingest runs, crashes and redeliveries.
C1_UniqueSourceExternal ==
    \A r1, r2 \in rawItems :
        (r1.source_id = r2.source_id /\ r1.external_id = r2.external_id) => r1 = r2

\* C1 witness: a worker whose duplicate check found nothing is about to
\* INSERT a key that another run has committed in the meantime.
C1_Witness ==
    \E w \in Workers :
        /\ pc[w] = "insert"
        /\ \E r \in rawItems :
              /\ r.external_id = CurrentItem(w).external_id
              /\ r.id[1] # w

\* C2: a second run right after a first one over the same listing reports
\* items_inserted = 0 and leaves raw_items as it found it.
C2_SecondRunInsertsNothing ==
    (pc[1] = "done" /\ runNo[1] >= 2) =>
        (inserted_count[1] = 0 /\ rawItems = rowsAtStart[1])

(***************************************************************************)
(* Claims about the pipeline                                               *)
(***************************************************************************)

\* C3: no step of any stage operation moves an item's status backwards in
\* the order new < extracted < embedded < clustered < scored.
C3_StatusNeverRegresses ==
    [][\A i \in Items : Rank(status'[i]) >= Rank(status[i])]_vars

\* C4: in every reachable state every item whose status is clustered or
\* scored has exactly one cluster_members row.
C4_ExactlyOneMembership ==
    \A i \in Items :
        status[i] \in {"clustered", "scored"} => Cardinality(MembershipsOf(members, i)) = 1

\* The canonical member rows of cluster c.
CanonicalMembers(c) == {m \in MembersOf(members, c) : m.is_canonical}

OneCanonicalAtOne(c) ==
    /\ Cardinality(CanonicalMembers(c)) = 1
    /\ \A m \in CanonicalMembers(c) : m.similarity = 100

\* C5 as stated: in every reachable state every cluster row, whatever its
\* status, has exactly one canonical member, whose similarity is 1.0.
C5_EveryClusterOneCanonical ==
    \A c \in clusters : OneCanonicalAtOne(c.id)

\* C5 amended: in every reachable state every cluster row whose status is
\* not merged has exactly one canonical member, whose similarity is 1.0.
C5_UnmergedClusterOneCanonical ==
    \A c \in clusters : c.status # "merged" => OneCanonicalAtOne(c.id)

\* C5 witness: merge_clusters has emptied a cluster into another one, which
\* now holds its own canonical member and a moved member.
C5_Witness ==
    \E c, d \in clusters :
        /\ c.status = "merged" /\ MembersOf(members, c.id) = {}
        /\ d.status # "merged" /\ Cardinality(MembersOf(members, d.id)) >= 2

\* C6: with the periodic triggers firing fairly and every external call
\* succeeding, an item with status new eventually has status scored.
C6_NewEventuallyScored ==
    \A i \in Items : (status[i] = "new") ~> (status[i] = "scored")

\* C7: whenever the loop of score_all writes a score for an item, the item
\* has status clustered and a cluster_members row.
C7_ScoreAllOnlyClustered ==
    [][\A i \in Items :
          (scoreTask.pc = "run" /\ scoreCount'[i] > scoreCount[i])
              => (status[i] = "clustered" /\ MembershipsOf(members, i) # {})]_vars

\* C8: once cluster_all_pending has processed two items whose similarity
\* reaches the threshold, exactly one cluster contains both, it has two
\* members, and neither item is a member of any other cluster.
C8_NearDuplicatesShareOneCluster ==
    \A a, b \in Items :
        (/\ a # b
         /\ embedding[a] # NoVec /\ embedding[b] # NoVec
         /\ Cosine(embedding[a], embedding[b]) >= semantic_threshold
         /\ \A k \in Items \ {a, b} : embedding[k] = NoVec
         /\ {a, b} \subseteq batchClustered)
        => /\ \E c \in clusters :
                 /\ {m.raw_item_id : m \in MembersOf(members, c.id)} = {a, b}
                 /\ Cardinality(MembersOf(members, c.id)) = 2
           /\ Cardinality(MembershipsOf(members, a)) = 1
           /\ Cardinality(MembershipsOf(members, b)) = 1

(***************************************************************************)
(* Claims about scoring and briefings                                      *)
(***************************************************************************)

\* C9: every ItemScore row written by _score_item has its four axis scores
\* in [0, 1] and signal_score = 0.40 relevance + 0.20 velocity + 0.20
\* cross_source + 0.20 novelty, hence in [0, 1].
C9_ScoreRowInRange ==
    scoreRow.written =>
        /\ \A x \in {scoreRow.relevance_score, scoreRow.velocity_score,
                      scoreRow.cross_source_score, scoreRow.novelty_score} :
               0 <= x /\ x <= One
        /\ scoreRow.signal_score =
               40 * scoreRow.relevance_score + 20 * scoreRow.velocity_score
               + 20 * scoreRow.cross_source_score + 20 * scoreRow.novelty_score
        /\ 0 <= scoreRow.signal_score /\ scoreRow.signal_score <= 100 * One

\* C9 witness: a row has been written for an LLM answer above 10, a Reddit
\* payload with a negative score and a cluster of three.
C9_Witness ==
    /\ scoreRow.written
    /\ scoreIn.ai.kind = "answer" /\ scoreIn.ai.score > 100
    /\ scoreIn.payload.kind = "reddit" /\ scoreIn.payload.score < 0
    /\ scoreIn.payload.upvote_ratio > 0
    /\ scoreIn.cluster_size >= 3

\* C10: every briefing_items row references an item whose most recent
\* ItemScore, when the briefing was created, had signal_score >= 0.6.
C10_BriefingItemsHighSignal ==
    \A b \in briefingItems : b.latest >= 60

(***************************************************************************)
(* Claims about POST /briefings/generate                                   *)
(***************************************************************************)

\* C11: when a call without force starts for a user who has a briefing
\* created on today's date, no briefing is created and the call answers
\* generated = false with the id of a briefing of that user and date.
C11_SameDayCallReturnsExisting ==
    [][\A c \in ApiCalls :
          (/\ apiCall[c].pc = "idle" /\ apiCall'[c].pc # "idle"
           /\ ~apiCall'[c].force
           /\ \E b \in UserBriefings(apiCall'[c].user) : b.day = today)
          => (/\ briefings' = briefings
              /\ apiCall'[c].pc = "done"
              /\ apiCall'[c].response.status_code = 200
              /\ ~apiCall'[c].response.generated
              /\ \E b \in UserBriefings(apiCall'[c].user) :
                    b.day = today /\ b.id = apiCall'[c].response.briefing_id)]_vars

\* C11 witness: a call without force has answered generated = false with the
\* id of a briefing of today, the user having an older briefing as well.
C11_Witness ==
    \E c \in ApiCalls :
        /\ apiCall[c].pc = "done" /\ ~apiCall[c].force
        /\ apiCall[c].response.status_code = 200 /\ ~apiCall[c].response.generated
        /\ \E b, o \in UserBriefings(apiCall[c].user) :
              /\ b.id = apiCall[c].response.briefing_id /\ b.day = today
              /\ o.day < b.day

\* C12: in every reachable state a user has, for each UTC date, at most one
\* briefing that was created without force.
C12_OneUnforcedBriefingPerDay ==
    \A b1, b2 \in briefings :
        (b1.user = b2.user /\ b1.day = b2.day /\ ~b1.forced /\ ~b2.forced) => b1 = b2

(***************************************************************************)
(* Claims about the extract stage                                          *)
(***************************************************************************)

\* C13: no run of the extract stage on an item that has an ExtractedContent
\* row already ends with an error.
C13_SecondExtractNoError ==
    extractItemErrors = {}

\* C14: no item ever has more than one ExtractedContent row, and every item
\* of a batch of extract_all_pending, whether that run is killed or not,
\* eventually has status extracted.
C14_KilledBatchEventuallyExtracted ==
    /\ [](\A i \in Items : contentRows[i] <= 1)
    /\ \A i \in Items :
          (extractTask.pc = "run" /\ i \in extractTask.batch) ~> (status[i] = "extracted")

\* C14 witness: the extract task has been killed, and afterwards an item of
\* its batch got status extracted and its one row.
C14_Witness ==
    /\ extractCrashes > 0
    /\ extractItemErrors = {} /\ onDemand = 0
    /\ \E i \in Items : status[i] = "extracted" /\ contentRows[i] = 1

\* C20: when the loop of extract_all_pending ends, every item of its batch
\* that has no ExtractedContent row has status extracted.
C20_NullExtractionStillExtracted ==
    [][(extractTask.pc = "run" /\ extractTask'.pc = "idle" /\ extractCrashes' = extractCrashes)
          => \A i \in extractTask.batch : contentRows'[i] = 0 => status'[i] = "extracted"]_vars

(***************************************************************************)
(* Claims about merge_clusters                                             *)
(***************************************************************************)
CanonicalOf(ms, cid) == {m \in MembersOf(ms, cid) : m.is_canonical}

StatusOf(cs, cid) == {c.status : c \in {x \in cs : x.id = cid}}

\* C15: after a merge_clusters(cluster_ids) that commits, every member that
\* was in a cluster of cluster_ids[2..] is in cluster_ids[1], every cluster of
\* cluster_ids[2..] has status merged, and the status and the canonical
\* members of cluster_ids[1] are what they were, for every list of existing
\* cluster ids.
C15_MergePostcondition ==
    [][\A ids \in MergeLists :
          MergeClusters(ids) =>
             /\ \A k \in 2..Len(ids) :
                   /\ \A m \in MembersOf(members, ids[k]) :
                         \E n \in MembersOf(members', ids[1]) : n.raw_item_id = m.raw_item_id
                   /\ StatusOf(clusters', ids[k]) = {"merged"}
             /\ StatusOf(clusters', ids[1]) = StatusOf(clusters, ids[1])
             /\ CanonicalOf(members', ids[1]) = CanonicalOf(members, ids[1])]_vars

\* C16: a merge_clusters(cluster_ids) called again right after a
\* merge_clusters(cluster_ids) that committed leaves every Cluster and
\* ClusterMember row as the first call left it.
C16_MergeIdempotent ==
    [][\A ids \in MergeLists :
          MergeClusters(ids) =>
             LET again == MergeFrom(ids, 2, [ok |-> TRUE, clusters |-> clusters',
                                             members |-> members'])
             IN  again.ok /\ again.clusters = clusters' /\ again.members = members']_vars

\* C16 witness: cluster b was merged into the open cluster a, which now holds
\* a moved member beside its canonical one, and merging <<a, b>> again gives
\* the rows there are.
C16_Witness ==
    \E a, b \in clusters :
        /\ a.id # b.id /\ a.status = "open" /\ b.status = "merged"
        /\ MembersOf(members, b.id) = {}
        /\ \E m, n \in MembersOf(members, a.id) : m.is_canonical /\ ~n.is_canonical
        /\ LET again == MergeFrom(<<a.id, b.id>>, 2, [ok |-> TRUE, clusters |-> clusters,
                                                      members |-> members])
           IN  again.ok /\ again.clusters = clusters /\ again.members = members

(***************************************************************************)
(* Claims about failures of an ingest run                                  *)
(***************************************************************************)

\* C17: when a run of BaseIngester.ingest has ended, every item of the
\* listing whose insert does not raise has a committed RawItem, whether it
\* came before or after an item whose insert raised.
C17_OtherItemsCommitted ==
    \A w \in Workers :
        pc[w] = "done" =>
            \A k \in 1..Len(listing) :
                ~listing[k].rejects =>
                    \E r \in rawItems : /\ r.source_id = TheSource
                                        /\ r.external_id = listing[k].external_id

\* C18: a run whose fetch of the listing raised ends with the Celery task
\* retried, not succeeded.
C18_FetchFailureRetried ==
    \A w \in Workers :
        ingestOutcome[w].fetch_failed => ingestOutcome[w].task = "retry"

\* C19: a run of any ingester inserts at most MAX_ITEMS_PER_SOURCE RawItems
\* and reports no error.
C19_AtMostMaxItemsInserted ==
    fetchOut.done =>
        /\ fetchOut.items_inserted <= fetchIn.max_items
        /\ ~fetchOut.error

(***************************************************************************)
(* Claims about what the extract stage skips                               *)
(***************************************************************************)

\* C21: no item whose URL is on an unextractable domain, and no HN
\* self-post, ever has an ExtractedContent row.
C21_UnextractableHasNoContent ==
    \A i \in Items : url[i] \in Unextractable => contentRows[i] = 0

(***************************************************************************)
(* Claims about the embedding provider                                     *)
(***************************************************************************)

\* C22: the embed operations never issue more than MAX_EMBEDDINGS_PER_HOUR
\* provider calls within one hour.
C22_EmbedCallsWithinHourlyCap ==
    embedCalls.counting => embedCalls.calls <= max_embeddings_per_hour

(***************************************************************************)
(* Claims about the daily triggers                                         *)
(***************************************************************************)

\* C23: the 06:50 trigger runs a registered briefing task, and when the
\* 07:00 selection has run, every user for whom high-signal items are
\* available has a briefing of today.
C23_BriefingsGeneratedBeforeEmail ==
    /\ beat.unregistered = {}
    /\ beat.phase = "0700" =>
          \A u \in Users :
              SignalRows # {} => \E b \in UserBriefings(u) : b.day = today

(***************************************************************************)
(* Claims about the semantic pass                                          *)
(***************************************************************************)
\* The matches of item i as the claim words them: another item, fetched
\* within the last 7 days, of cosine similarity at least 0.92.
ClaimedMatches(i) ==
    {j \in Items : /\ j # i
                   /\ embedding[j] # NoVec
                   /\ inWindow[j]
                   /\ Cosine(embedding[i], embedding[j]) >= 92}

ClaimedBest(i) ==
    {j \in ClaimedMatches(i) :
        \A k \in ClaimedMatches(i) :
            Cosine(embedding[i], embedding[k]) <= Cosine(embedding[i], embedding[j])}

\* C24: a call of assign_cluster on item i gives i a non-canonical member
\* row exactly when i has a match; the row carries the similarity of a best
\* match and lies in that match's cluster, the one it was in before the call
\* if it was in one.
C24_JoinsClusterOfBestMatch ==
    [][\A i \in Items :
          AssignCluster(i) =>
             LET joined == {m \in members' \ members : m.raw_item_id = i /\ ~m.is_canonical}
             IN  IF ClaimedMatches(i) = {}
                   THEN joined = {}
                   ELSE \E j \in ClaimedBest(i) : \E m \in joined :
                          /\ m.similarity = Cosine(embedding[i], embedding[j])
                          /\ MemberKeyTaken(members', m.cluster_id, j)
                          /\ MembershipsOf(members, j) # {} =>
                                MemberKeyTaken(members, m.cluster_id, j)]_vars

(***************************************************************************)
(* Claims about archived clusters                                          *)
(***************************************************************************)

\* C25: no step changes the status or the ClusterMember rows of a cluster
\* that has status archived.
C25_ArchivedClusterReadOnly ==
    [][\A c \in clusters :
          c.status = "archived" =>
             /\ c \in clusters'
             /\ MembersOf(members', c.id) = MembersOf(members, c.id)]_vars

(***************************************************************************)
(* Claims about _add_to_cluster                                            *)
(***************************************************************************)

\* C26: when assign_cluster hands item i and its best match j to
\* _add_to_cluster: if j has a ClusterMember row, canonical or not, no
\* Cluster is created and i is added to a cluster j is in; if j has none, a
\* Cluster with j as canonical member of similarity 1.0 is created and i is
\* added to it.
C26_ExistingClusterOfCanonicalUsed ==
    [][\A i \in Items :
          (AssignCluster(i) /\ embedding[i] # NoVec /\ SimilarItems(i) # {}) =>
             \E j \in BestMatches(i) :
                IF MembershipsOf(members, j) # {}
                  THEN /\ clusters' = clusters
                       /\ \E m \in members' \ members :
                             /\ m.raw_item_id = i
                             /\ MemberKeyTaken(members, m.cluster_id, j)
                  ELSE \E c \in clusters' \ clusters :
                          /\ c.canonical_item_id = j
                          /\ Member(c.id, j, TRUE, 100) \in members'
                          /\ MemberKeyTaken(members', c.id, i)]_vars

\* C27: the semantic pass on an item that has a ClusterMember row creates no
\* Cluster and no ClusterMember row: neither assign_cluster called on such
\* an item, nor the loop body of cluster_all_pending for an item that got a
\* membership earlier in the batch.
C27_SemanticPassNoOpForClusteredItem ==
    [][/\ \A i \in Items :
             (AssignCluster(i) /\ MembershipsOf(members, i) # {}) =>
                (clusters' = clusters /\ members' = members)
       /\ (clusterTask.pc = "run" /\ clusterTask'.pc = "run") =>
             \A i \in clusterTask.todo \ clusterTask'.todo :
                 MembershipsOf(ClusterView, i) # {} =>
                    /\ clusterTask'.clusters = clusterTask.clusters
                    /\ clusterTask'.members = clusterTask.members]_vars

\* C28: an item without an ItemEmbedding row has no ClusterMember row and
\* not the status clustered (the pipeline has no exact pass).
C28_NoEmbeddingNeverClustered ==
    \A i \in Items :
        embedding[i] = NoVec =>
            (MembershipsOf(members, i) = {} /\ status[i] # "clustered")

\* C29: when several candidates tie on the highest similarity,
\* check_semantic_duplicate takes the one with the oldest published_at.
C29_TieTakesOldestPublished ==
    (semOut.done /\ semOut.is_dup) =>
        \A k \in FirstRows(semIn) :
            semIn[semOut.best_match].published_at <= semIn[k].published_at

\* C30: check_exact_duplicate, whatever the number of matching items: with
\* at least one url match the item joins with similarity 1.0 through a url
\* match and True is returned; otherwise with at least one title match in
\* the window the same through a title match; otherwise nothing is created
\* and False is returned.
C30_ExactDuplicateAnyNumber ==
    exactOut.done =>
        IF exactIn.url_matches >= 1
        THEN ~exactOut.raised /\ exactOut.returned /\ exactOut.via = "url"
             /\ exactOut.similarity = 100
        ELSE IF exactIn.title_matches >= 1
        THEN ~exactOut.raised /\ exactOut.returned /\ exactOut.via = "title"
             /\ exactOut.similarity = 100
        ELSE ~exactOut.raised /\ ~exactOut.returned /\ exactOut.via = "none"

C32_HeuristicRelevance ==
    (/\ scoreRow.written
     /\ scoreIn.ai.kind \in {"off", "error"}
     /\ scoreIn.credibility_tier \in 1..5) =>
        scoreRow.relevance_score =
            Clip(scoreIn.credibility_tier * 200
                 + (IF scoreIn.body_length >= 200 THEN 100 ELSE 0)
                 - (IF scoreIn.title_length < 20 THEN 100 ELSE 0))

\* C35: score_meta.ai_scored is true exactly when the stored relevance was
\* produced by the LLM.
C35_AiScoredIffLlmRelevance ==
    scoreRow.written =>
        (scoreRow.ai_scored <=> scoreIn.ai.kind \in {"answer", "nan"})

\* The BriefingItem rows of the briefing generate_for_user committed last.
LastBriefingItems == {b \in briefingItems : b.briefing = lastBriefing.id}

\* C33: whenever the LLM path fails (no provider, transport error,
\* unparsable JSON, or a JSON object without a usable "briefing"), the
\* content is the fallback template's: non-empty markdown and the ids of the
\* ranked candidates.
C33_LlmFailureUsesFallback ==
    (/\ lastBriefing.id # 0
     /\ lastBriefing.llm # "answer" \/ ~lastBriefing.has_briefing) =>
        /\ lastBriefing.fallback
        /\ lastBriefing.summary_md = "fallback_markdown"
        /\ lastBriefing.items_included = Len(lastBriefing.signals)

\* C34: the BriefingItem rows of a committed briefing have the ranks 1..k
\* with k their number, k is the returned items_included, and every row
\* references one of the candidates selected for the briefing.
C34_RanksContiguousAndCandidates ==
    lastBriefing.id # 0 =>
        /\ {b.rank : b \in LastBriefingItems} = 1..Cardinality(LastBriefingItems)
        /\ Cardinality(LastBriefingItems) = lastBriefing.items_included
        /\ \A b \in LastBriefingItems :
               \E k \in 1..Len(lastBriefing.signals) : lastBriefing.signals[k] = b.raw_item_id

\* C38: no RawItem appears more than once among the candidates or among the
\* BriefingItems of one briefing, also when it has several ItemScore rows.
C38_NoItemTwiceInBriefing ==
    lastBriefing.id # 0 =>
        /\ \A a, b \in 1..Len(lastBriefing.signals) :
               a # b => lastBriefing.signals[a] # lastBriefing.signals[b]
        /\ \A x, y \in LastBriefingItems :
               x.rank # y.rank => x.raw_item_id # y.raw_item_id

\* C36: score_all never creates a second ItemScore row for an item that has
\* one, also when two runs of score_all overlap.
C36_ScoreAllOneRowPerItem ==
    \A i \in Items : scoreCount[i] <= 1

\* The committed rows the latest run of worker w inserted.
RowsOfRun(w) == {r \in rawItems : r.id[1] = w /\ r.id[2] = runNo[w]}

\* C37: when a run of BaseIngester.ingest has returned, items_inserted is the
\* number of RawItem rows the run added to the committed table, also when
\* persisting an item of the batch raised.
C37_ItemsInsertedIsRowsAdded ==
    \A w \in Workers :
        pc[w] = "done" => inserted_count[w] = Cardinality(RowsOfRun(w))

\* C39: after any sequence of clustering, merge_clusters and
\* archive_old_clusters, a cluster with status merged has no ClusterMember
\* rows, and a cluster that has left status open never returns to it.
C39_MergedEmptyAndNeverReopened ==
    [][/\ \A c \in clusters' : c.status = "merged" => MembersOf(members', c.id) = {}
       /\ \A c \in clusters : c.status # "open" => StatusOf(clusters', c.id) \subseteq
                                                       {"merged", "archived"}]_vars

====
